---------------------------- MODULE Spec2Model ----------------------------
(***************************************************************************)
(* A model of tasmotadevicecontroller.TasmotaDevice: the connect probe,    *)
(* the transport primitive send_raw_request and the typed wrapper methods. *)
(*                                                                         *)
(* Text (a Python str) is a sequence of tokens; an f-string is the         *)
(* concatenation of its parts, `a in b` is contiguous-subsequence          *)
(* containment and len() is the number of tokens (friendly names are       *)
(* written one character per token).  A Python value is a tagged record,   *)
(* so that the int 5 and the str "5" are different values.  A JSON object  *)
(* is the ordered sequence of its (key, value) pairs.                      *)
(***************************************************************************)
EXTENDS Integers, Sequences, FiniteSets, TLC

VARIABLES
    device,   \* the TasmotaDevice the caller holds (None before connect returned one)
    pc,       \* "idle": no call in progress; "done": a call has finished
    call,     \* the operation called last and its arguments
    sent,     \* the HTTP requests issued during that call, in order
    http,     \* what the HTTP exchange of that call produced (NoHttp: none took place)
    result    \* how that call ended: a returned value or a raised exception

vars == <<device, pc, call, sent, http, result>>

(***************************************************************************)
(* Bounds of the model.                                                    *)
(***************************************************************************)
\* Outputs OUTPUT_1 .. OUTPUT_<MaxOutput> exist besides ALL_OUTPUTS.
MaxOutput == 2
\* Integer inputs and replies are taken within EdgeWidth of each range limit.
EdgeWidth == 1

(***************************************************************************)
(* Python values.                                                          *)
(***************************************************************************)
None == [t |-> "None"]
StrV(s) == [t |-> "str", v |-> s]
IntV(i) == [t |-> "int", v |-> i]
BoolV(b) == [t |-> "bool", v |-> b]
DictV(d) == [t |-> "dict", v |-> d]

\* str(x) of a str or an int
pystr(x) == IF x.t = "int" THEN <<ToString(x.v)>> ELSE x.v

\* needle in hay
Contains(hay, needle) ==
    \E i \in 0..(Len(hay) - Len(needle)) :
        SubSeq(hay, i + 1, i + Len(needle)) = needle

\* repr(x) of a value found in a reply
repr(x) ==
    CASE x.t = "str" -> <<"'">> \o x.v \o <<"'">>
      [] x.t = "int" -> <<ToString(x.v)>>
      [] OTHER -> <<"None">>

\* str(response) of a reply mapping, as an f-string formats it
RECURSIVE reprItems(_)
reprItems(d) ==
    IF d = <<>> THEN <<>>
    ELSE <<"'">> \o d[1].k \o <<"'", ": ">> \o repr(d[1].v)
         \o (IF Len(d) > 1 THEN <<", ">> ELSE <<>>) \o reprItems(Tail(d))

reprDict(d) == <<"{">> \o reprItems(d) \o <<"}">>

\* response.get(key)
get(response, key) ==
    IF \E i \in 1..Len(response) : response[i].k = key
    THEN response[CHOOSE i \in 1..Len(response) : response[i].k = key].v
    ELSE None

(***************************************************************************)
(* How a call ends.                                                        *)
(***************************************************************************)
Return(v) == [kind |-> "return", val |-> v]
Raise(type, msg) == [kind |-> "raise", type |-> type, msg |-> msg]
NoResult == [kind |-> "none"]

\* what a handler did: the requests it sent and how it ended
Done(requests, out) == [sent |-> requests, out |-> out]

(***************************************************************************)
(* tasmota_types: the enumerated domains.  A member is a record naming its *)
(* enum and its position; `.value` is its wire encoding.                   *)
(***************************************************************************)
Member(enum, idx) == [t |-> "enum", enum |-> enum, idx |-> idx]

\* PowerType: OFF, ON, TOGGLE, BLINK, BLINK_OFF
PowerTypeNames == <<"OFF", "ON", "TOGGLE", "BLINK", "BLINK_OFF">>
PowerType == {Member("PowerType", i) : i \in 1..Len(PowerTypeNames)}
PowerTypeOf(name) ==
    Member("PowerType", CHOOSE i \in 1..Len(PowerTypeNames) : PowerTypeNames[i] = name)

\* PowerOutputType: ALL_OUTPUTS (position 0) and OUTPUT_1 .. OUTPUT_<MaxOutput>
PowerOutputType == {Member("PowerOutputType", i) : i \in 0..MaxOutput}
ALL_OUTPUTS == Member("PowerOutputType", 0)

\* FriendlyNameOutputType: OUTPUT_1 .. OUTPUT_<MaxOutput>
FriendlyNameOutputType == {Member("FriendlyNameOutputType", i) : i \in 1..MaxOutput}

\* StatusType: the thirteen status kinds, in the order get_status documents them
StatusTypeNames ==
    <<"ABBREVIATED", "ALL", "DEVICE_PARAMETERS", "FIRMWARE",
      "LOGGING_AND_TELEMETRY", "MEMORY", "NETWORK", "MQTT", "TIME",
      "CONNECTED_SENSOR", "POWER_THRESHOLDS", "TELE_PERIOD", "STACK_DUMP">>
StatusType == {Member("StatusType", i) : i \in 1..Len(StatusTypeNames)}
ABBREVIATED == Member("StatusType", 1)

\* member.value: the wire encoding, a str
EnumValue(m) ==
    CASE m.enum = "PowerType" -> StrV(<<ToString(m.idx - 1)>>)
      [] m.enum = "StatusType" -> StrV(<<ToString(m.idx - 1)>>)
      [] OTHER -> StrV(<<ToString(m.idx)>>)

\* tasmota_types._isValidEnumValue(value, enum)
isValidEnumValue(value, enum) == value \in enum

(***************************************************************************)
(* The device's side of an HTTP exchange.                                  *)
(***************************************************************************)
AuthMarker == <<"Need user=<username>&password=<password>">>

NoHttp == [kind |-> "none"]
Timeout == [kind |-> "timeout"]
NetError == [kind |-> "neterror"]
\* a response whose body is the JSON text of object obj
JsonResponse(status, obj) ==
    [kind |-> "response", status |-> status, json |-> TRUE,
     obj |-> obj, text |-> reprDict(obj)]
\* a response whose body is text that is no JSON
TextResponse(status, text) ==
    [kind |-> "response", status |-> status, json |-> FALSE,
     obj |-> <<>>, text |-> text]

\* the un-awaited coroutine resp.text(), as an f-string formats it
CoroutineRepr == <<"<coroutine object ClientResponse.text at 0x...>">>

(***************************************************************************)
(* TasmotaDevice.send_raw_request                                          *)
(***************************************************************************)
\* the GET request of send_raw_request: f"{self._url}/cm" with
\* params = {"cmnd": str(command), **self._login_info}
Request(self, command) ==
    [url |-> self.url \o <<"/cm">>,
     params |-> <<[k |-> <<"cmnd">>, v |-> StrV(command)]>> \o self.login_info]

\* what session.get raises when the exchange yields no response: the HTTP
\* client's own exception, which send_raw_request does not catch
ClientException(h) ==
    IF h.kind = "timeout"
    THEN Raise("TimeoutError", <<>>)
    ELSE Raise("ClientConnectorError", <<"Cannot connect to host">>)

\* Faulty variant: a failed exchange is attempted a second time.
send_raw_request_Retry(self, command, h) ==
    LET out == IF h.kind # "response" THEN ClientException(h)
               ELSE IF h.status # 200
                    THEN Raise("CommandError",
                               <<"Unexpected HTTP status ", ToString(h.status), ": ">>
                               \o CoroutineRepr)
               ELSE IF h.json THEN Return(DictV(h.obj))
               ELSE Raise("CommandError",
                          <<"Non-JSON data returned by device: ">> \o CoroutineRepr) IN
    Done(IF out.kind = "raise"
         THEN <<Request(self, command), Request(self, command)>>
         ELSE <<Request(self, command)>>, out)

\* Faulty variant: a timeout or network failure is wrapped in ConnectionError.
send_raw_request_Wraps(self, command, h) ==
    Done(<<Request(self, command)>>,
         IF h.kind # "response"
         THEN Raise("ConnectionError", ClientException(h).msg)
         ELSE IF h.status # 200
              THEN Raise("CommandError",
                         <<"Unexpected HTTP status ", ToString(h.status), ": ">>
                         \o CoroutineRepr)
         ELSE IF h.json THEN Return(DictV(h.obj))
         ELSE Raise("CommandError",
                    <<"Non-JSON data returned by device: ">> \o CoroutineRepr))

send_raw_request(self, command, h) ==
    Done(<<Request(self, command)>>,
         IF h.kind # "response" THEN ClientException(h)
         ELSE IF h.status # 200
              THEN Raise("CommandError",
                         <<"Unexpected HTTP status ", ToString(h.status), ": ">>
                         \o CoroutineRepr)
         ELSE IF h.json THEN Return(DictV(h.obj))
         ELSE Raise("CommandError",
                    <<"Non-JSON data returned by device: ">> \o CoroutineRepr))

\* CommandError(f"Command failed: {response}")
CommandFailed(response) ==
    Raise("CommandError", <<"Command failed: ">> \o reprDict(response))

(***************************************************************************)
(* Wrapper methods: control                                                *)
(***************************************************************************)
\* The blink wrappers take integers, on which their int(value) changes nothing.
MinBlinkCount == 0
MaxBlinkCount == 32000
MinBlinkTime == 2
MaxBlinkTime == 3600

get_blink_count(self, h) ==
    LET s == send_raw_request(self, <<"BlinkCount">>, h) IN
    IF s.out.kind = "raise" THEN s
    ELSE LET response == s.out.val.v IN
         IF get(response, <<"BlinkCount">>) = None
         THEN Done(s.sent, CommandFailed(response))
         ELSE Done(s.sent, Return(get(response, <<"BlinkCount">>)))

\* Faulty variant: the upper limit is off by one.
set_blink_count_OffByOne(self, value, h) ==
    IF value < MinBlinkCount \/ value >= MaxBlinkCount
    THEN Done(<<>>, Raise("ValueError", <<"Value must be between 0 and 32000">>))
    ELSE LET s == send_raw_request(self, <<"BlinkCount", " ", ToString(value)>>, h) IN
         IF s.out.kind = "raise" THEN s
         ELSE LET response == s.out.val.v IN
              IF get(response, <<"BlinkCount">>) # IntV(value)
              THEN Done(s.sent, CommandFailed(response))
              ELSE Done(s.sent, Return(IntV(value)))

set_blink_count(self, value, h) ==
    IF value < MinBlinkCount \/ value > MaxBlinkCount
    THEN Done(<<>>, Raise("ValueError", <<"Value must be between 0 and 32000">>))
    ELSE LET s == send_raw_request(self, <<"BlinkCount", " ", ToString(value)>>, h) IN
         IF s.out.kind = "raise" THEN s
         ELSE LET response == s.out.val.v IN
              IF get(response, <<"BlinkCount">>) # IntV(value)
              THEN Done(s.sent, CommandFailed(response))
              ELSE Done(s.sent, Return(IntV(value)))

get_blink_time(self, h) ==
    LET s == send_raw_request(self, <<"BlinkTime">>, h) IN
    IF s.out.kind = "raise" THEN s
    ELSE LET response == s.out.val.v IN
         IF get(response, <<"BlinkTime">>) = None
         THEN Done(s.sent, CommandFailed(response))
         ELSE Done(s.sent, Return(get(response, <<"BlinkTime">>)))

\* Faulty variant: the command is sent before the range is checked.
set_blink_time_SendsFirst(self, value, h) ==
    LET s == send_raw_request(self, <<"BlinkTime", " ", ToString(value)>>, h) IN
    IF value < MinBlinkTime \/ value > MaxBlinkTime
    THEN Done(s.sent, Raise("ValueError", <<"Value must be between 2 and 3600">>))
    ELSE IF s.out.kind = "raise" THEN s
         ELSE LET response == s.out.val.v IN
              IF get(response, <<"BlinkTime">>) # IntV(value)
              THEN Done(s.sent, CommandFailed(response))
              ELSE Done(s.sent, Return(IntV(value)))

set_blink_time(self, value, h) ==
    IF value < MinBlinkTime \/ value > MaxBlinkTime
    THEN Done(<<>>, Raise("ValueError", <<"Value must be between 2 and 3600">>))
    ELSE LET s == send_raw_request(self, <<"BlinkTime", " ", ToString(value)>>, h) IN
         IF s.out.kind = "raise" THEN s
         ELSE LET response == s.out.val.v IN
              IF get(response, <<"BlinkTime">>) # IntV(value)
              THEN Done(s.sent, CommandFailed(response))
              ELSE Done(s.sent, Return(IntV(value)))

InvalidOutput == Raise("ValueError", <<"Received invalid value for 'output'!">>)

\* Faulty variant: the reply for ALL_OUTPUTS is checked like any other.
get_power_ChecksAll(self, output, h) ==
    IF ~isValidEnumValue(output, PowerOutputType)
    THEN Done(<<>>, InvalidOutput)
    ELSE LET out == EnumValue(output)
             power_output == <<"POWER">> \o pystr(out)
             s == send_raw_request(self, power_output, h) IN
         IF s.out.kind = "raise" THEN s
         ELSE LET response == s.out.val.v IN
              IF /\ get(response, power_output) # StrV(<<"ON">>)
                 /\ get(response, power_output) # StrV(<<"OFF">>)
              THEN Done(s.sent, CommandFailed(response))
              ELSE Done(s.sent, Return(get(response, power_output)))

get_power(self, output, h) ==
    IF ~isValidEnumValue(output, PowerOutputType)
    THEN Done(<<>>, InvalidOutput)
    ELSE LET out == EnumValue(output)
             power_output == <<"POWER">> \o pystr(out)
             s == send_raw_request(self, power_output, h) IN
         IF s.out.kind = "raise" THEN s
         ELSE LET response == s.out.val.v IN
              IF out = StrV(<<"0">>) THEN Done(s.sent, Return(DictV(response)))
              ELSE IF /\ get(response, power_output) # StrV(<<"ON">>)
                      /\ get(response, power_output) # StrV(<<"OFF">>)
              THEN Done(s.sent, CommandFailed(response))
              ELSE Done(s.sent, Return(get(response, power_output)))

\* Faulty variant: any reply that holds the key is accepted, whatever its value.
set_power_AnyValue(self, value, output, h) ==
    IF ~isValidEnumValue(value, PowerType)
    THEN Done(<<>>, Raise("ValueError", <<"Received invalid value for 'value'!">>))
    ELSE IF ~isValidEnumValue(output, PowerOutputType)
    THEN Done(<<>>, InvalidOutput)
    ELSE IF /\ value = PowerTypeOf("BLINK") \/ value = PowerTypeOf("BLINK_OFF")
            /\ output = ALL_OUTPUTS
    THEN Done(<<>>, Raise("ValueError",
              <<"Power type 'BLINK' and 'BLINK_OFF' can only be set for specific outputs, not all!">>))
    ELSE LET parsed_value == EnumValue(value)
             power_output == <<"POWER">> \o pystr(EnumValue(output))
             s == send_raw_request(self, power_output \o <<" ">> \o pystr(parsed_value), h) IN
         IF s.out.kind = "raise" THEN s
         ELSE LET response == s.out.val.v
                  got == get(response, power_output) IN
              IF got = None THEN Done(s.sent, CommandFailed(response))
              ELSE IF value = PowerTypeOf("TOGGLE")
              THEN Done(s.sent, Return(BoolV(got = StrV(<<"ON">>))))
              ELSE Done(s.sent, Return(BoolV(value # PowerTypeOf("OFF"))))

set_power(self, value, output, h) ==
    IF ~isValidEnumValue(value, PowerType)
    THEN Done(<<>>, Raise("ValueError", <<"Received invalid value for 'value'!">>))
    ELSE IF ~isValidEnumValue(output, PowerOutputType)
    THEN Done(<<>>, InvalidOutput)
    ELSE IF /\ value = PowerTypeOf("BLINK") \/ value = PowerTypeOf("BLINK_OFF")
            /\ output = ALL_OUTPUTS
    THEN Done(<<>>, Raise("ValueError",
              <<"Power type 'BLINK' and 'BLINK_OFF' can only be set for specific outputs, not all!">>))
    ELSE LET parsed_value == EnumValue(value)
             power_output == <<"POWER">> \o pystr(EnumValue(output))
             s == send_raw_request(self, power_output \o <<" ">> \o pystr(parsed_value), h) IN
         IF s.out.kind = "raise" THEN s
         ELSE LET response == s.out.val.v
                  got == get(response, power_output) IN
              IF got = None THEN Done(s.sent, CommandFailed(response))
              ELSE IF value = PowerTypeOf("OFF")
              THEN IF got # StrV(<<"OFF">>)
                   THEN Done(s.sent, CommandFailed(response))
                   ELSE Done(s.sent, Return(BoolV(FALSE)))
              ELSE IF value = PowerTypeOf("ON")
              THEN IF got # StrV(<<"ON">>)
                   THEN Done(s.sent, CommandFailed(response))
                   ELSE Done(s.sent, Return(BoolV(TRUE)))
              ELSE IF value = PowerTypeOf("TOGGLE")
              THEN IF got # StrV(<<"ON">>) /\ get(response, <<"POWER">>) # StrV(<<"OFF">>)
                   THEN Done(s.sent, CommandFailed(response))
                   ELSE Done(s.sent, Return(BoolV(got = StrV(<<"ON">>))))
              ELSE IF value = PowerTypeOf("BLINK")
              THEN IF got # StrV(<<"Blink ON">>)
                   THEN Done(s.sent, CommandFailed(response))
                   ELSE Done(s.sent, Return(BoolV(TRUE)))
              ELSE IF value = PowerTypeOf("BLINK_OFF")
              THEN IF got # StrV(<<"Blink OFF">>)
                   THEN Done(s.sent, CommandFailed(response))
                   ELSE Done(s.sent, Return(BoolV(TRUE)))
              ELSE Done(s.sent, Return(None))

(***************************************************************************)
(* Wrapper methods: management                                             *)
(***************************************************************************)
MaxNameLen == 32

get_friendly_name(self, output, h) ==
    IF ~isValidEnumValue(output, FriendlyNameOutputType)
    THEN Done(<<>>, InvalidOutput)
    ELSE LET key == <<"FriendlyName">> \o pystr(EnumValue(output))
             s == send_raw_request(self, key, h) IN
         IF s.out.kind = "raise" THEN s
         ELSE LET response == s.out.val.v IN
              IF get(response, key) = None
              THEN Done(s.sent, CommandFailed(response))
              ELSE Done(s.sent, Return(get(response, key)))

set_friendly_name(self, value, output, h) ==
    IF ~isValidEnumValue(output, FriendlyNameOutputType)
    THEN Done(<<>>, InvalidOutput)
    ELSE LET name == pystr(value)
             key == <<"FriendlyName">> \o pystr(EnumValue(output)) IN
         IF Len(name) > MaxNameLen
         THEN Done(<<>>, Raise("ValueError", <<"Name must be at most 32 characters long">>))
         ELSE LET s == send_raw_request(self, key \o <<" ">> \o name, h) IN
              IF s.out.kind = "raise" THEN s
              ELSE LET response == s.out.val.v IN
                   IF get(response, key) # StrV(name)
                   THEN Done(s.sent, CommandFailed(response))
                   ELSE Done(s.sent, Return(StrV(name)))

\* next(iter(response)) of an empty mapping raises StopIteration, which leaves
\* a coroutine as RuntimeError
StopIterationInCoroutine == Raise("RuntimeError", <<"coroutine raised StopIteration">>)

get_status(self, statusType, h) ==
    IF ~isValidEnumValue(statusType, StatusType)
    THEN Done(<<>>, Raise("ValueError", <<"Received invalid value for 'statusType'!">>))
    ELSE LET s == send_raw_request(self, <<"Status", " ">> \o pystr(EnumValue(statusType)), h) IN
         IF s.out.kind = "raise" THEN s
         ELSE LET response == s.out.val.v IN
              IF response = <<>> THEN Done(s.sent, StopIterationInCoroutine)
              ELSE IF ~Contains(response[1].k, <<"Status">>)
              THEN Done(s.sent, CommandFailed(response))
              ELSE Done(s.sent, Return(DictV(response)))

(***************************************************************************)
(* TasmotaDevice.connect                                                   *)
(***************************************************************************)
\* url.rstrip("/")
RECURSIVE rstrip(_)
rstrip(url) ==
    IF url # <<>> /\ url[Len(url)] = "/"
    THEN rstrip(SubSeq(url, 1, Len(url) - 1))
    ELSE url

\* url.startswith(prefix), prefix a single token
startswith(url, prefix) == url # <<>> /\ url[1] = prefix

NormalizeUrl(url) ==
    LET u == rstrip(url) IN
    IF ~startswith(u, "http://") /\ ~startswith(u, "https://")
    THEN <<"http://">> \o u
    ELSE u

AuthRequired ==
    Raise("AuthenticationError", <<"Username (usually admin) and password are required">>)
AuthInvalid ==
    Raise("AuthenticationError", <<"Username and / or password are invalid">>)

\* Faulty variant: a probe failure without the marker is re-raised as it is.
connect_Reraises(url, username, password, timeout, h) ==
    IF (username = None) # (password = None)
    THEN Done(<<>>, Raise("ValueError",
              <<"Username and password must either be both not set or both set!">>))
    ELSE LET self == [timeout |-> timeout,
                      url |-> NormalizeUrl(url),
                      login_info |-> IF password # None
                                     THEN <<[k |-> <<"user">>, v |-> username],
                                            [k |-> <<"password">>, v |-> password]>>
                                     ELSE <<>>]
             probe == get_status(self, ABBREVIATED, h) IN
         IF probe.out.kind = "raise"
         THEN IF Contains(probe.out.msg, AuthMarker)
              THEN IF password = None
                   THEN Done(probe.sent, AuthRequired)
                   ELSE Done(probe.sent, AuthInvalid)
              ELSE probe
         ELSE Done(probe.sent, Return(self))

connect(url, username, password, timeout, h) ==
    IF (username = None) # (password = None)
    THEN Done(<<>>, Raise("ValueError",
              <<"Username and password must either be both not set or both set!">>))
    ELSE LET self == [timeout |-> timeout,
                      url |-> NormalizeUrl(url),
                      login_info |-> IF password # None
                                     THEN <<[k |-> <<"user">>, v |-> username],
                                            [k |-> <<"password">>, v |-> password]>>
                                     ELSE <<>>]
             probe == get_status(self, ABBREVIATED, h) IN
         IF probe.out.kind = "raise"
         THEN IF Contains(probe.out.msg, AuthMarker)
              THEN IF password = None
                   THEN Done(probe.sent, AuthRequired)
                   ELSE Done(probe.sent, AuthInvalid)
              ELSE Done(probe.sent,
                        Raise("ConnectionError",
                              <<"Failed to connect to tasmota device: ">> \o probe.out.msg))
         ELSE Done(probe.sent, Return(self))

(***************************************************************************)
(* Inputs: what a caller may pass and what the device may answer.          *)
(***************************************************************************)
\* the integers within EdgeWidth of either limit of lo..hi
Edges(lo, hi) == ((lo - EdgeWidth)..(lo + EdgeWidth)) \cup ((hi - EdgeWidth)..(hi + EdgeWidth))

BlinkCountInputs == Edges(MinBlinkCount, MaxBlinkCount)
BlinkTimeInputs == Edges(MinBlinkTime, MaxBlinkTime)

\* a name of n characters
Chars(n) == [i \in 1..n |-> "a"]
NameInputs ==
    {StrV(Chars(n)) : n \in (MaxNameLen - EdgeWidth)..(MaxNameLen + EdgeWidth)}
    \cup {StrV(<<"K", "i", "t">>), IntV(1)}

\* values that are members of no enum a wrapper accepts for that argument
NotAnEnumMember == StrV(<<"1">>)
PowerOutputInputs == PowerOutputType \cup {NotAnEnumMember, Member("FriendlyNameOutputType", 1)}
PowerTypeInputs == PowerType \cup {NotAnEnumMember}
FriendlyNameOutputInputs == FriendlyNameOutputType \cup {NotAnEnumMember, ALL_OUTPUTS}
StatusTypeInputs == StatusType \cup {NotAnEnumMember}

DefaultTimeout == 30
UrlInputs == {<<"tasmota.local">>, <<"http://", "tasmota.local", "/", "/">>}
UsernameInputs == {None, StrV(<<"admin">>)}
PasswordInputs == {None, StrV(<<"secret">>)}
RawCommands == {<<"Status", " ", "0">>, <<"Restart", " ", "1">>}

\* keys and values of the JSON objects a device may answer with
PowerKeys == {<<"POWER">>} \cup {<<"POWER", ToString(n)>> : n \in 0..MaxOutput}
ReplyKeys ==
    PowerKeys
    \cup {<<"FriendlyName", ToString(n)>> : n \in 1..MaxOutput}
    \cup {<<"BlinkCount">>, <<"BlinkTime">>, <<"Status">>, <<"Status", "SNS">>,
          <<"WARNING">>, <<"Command">>}
PowerValues == {StrV(<<"ON">>), StrV(<<"OFF">>), StrV(<<"UNKNOWN">>)}
ReplyValues ==
    PowerValues
    \cup {StrV(<<"Blink ON">>), StrV(<<"Blink OFF">>), StrV(AuthMarker), None}
    \cup {StrV(pystr(n)) : n \in NameInputs}
    \cup {IntV(i) : i \in BlinkCountInputs \cup BlinkTimeInputs}

Pair(key, value) == [k |-> key, v |-> value]
\* the keys of the objects of two pairs: those set_power, get_status and
\* connect read
TwoPairKeys == PowerKeys \cup {<<"Status">>, <<"WARNING">>}
\* the empty object, every object of one pair, and objects of two pairs
AllReplies ==
    {<<>>}
    \cup {<<Pair(k, v)>> : k \in ReplyKeys, v \in ReplyValues}
    \cup {<<Pair(k1, v1), Pair(k2, v2)>> :
            k1 \in TwoPairKeys, v1 \in PowerValues,
            k2 \in TwoPairKeys, v2 \in PowerValues}

\* the keys of an object are distinct
Replies == {r \in AllReplies : Len(r) < 2 \/ r[1].k # r[2].k}

HttpOutcomes ==
    {Timeout, NetError}
    \cup {JsonResponse(200, r) : r \in Replies}
    \cup {JsonResponse(401, <<Pair(<<"WARNING">>, StrV(AuthMarker))>>),
          TextResponse(401, AuthMarker),
          TextResponse(500, <<"Internal Server Error">>),
          TextResponse(200, <<"<html>">>),
          TextResponse(200, AuthMarker)}

(***************************************************************************)
(* The caller: one call at a time, each run to its end.                    *)
(***************************************************************************)
Init ==
    /\ device = None
    /\ pc = "idle"
    /\ call = [op |-> "none", args |-> <<>>]
    /\ sent = <<>>
    /\ http = NoHttp
    /\ result = NoResult

\* the call op(args), handled as r, with h the outcome of its HTTP exchange
Invoke(op, args, r, h) ==
    /\ pc' = "done"
    /\ call' = [op |-> op, args |-> args]
    /\ sent' = r.sent
    /\ http' = IF r.sent = <<>> THEN NoHttp ELSE h
    /\ result' = r.out

Connect ==
    /\ pc = "idle"
    /\ \E url \in UrlInputs, username \in UsernameInputs,
          password \in PasswordInputs, h \in HttpOutcomes :
          LET r == connect(url, username, password, DefaultTimeout, h) IN
          /\ Invoke("connect", <<url, username, password, DefaultTimeout>>, r, h)
          /\ device' = IF r.out.kind = "return" THEN r.out.val ELSE device

SendRawRequest ==
    /\ pc = "idle" /\ device # None
    /\ \E command \in RawCommands, h \in HttpOutcomes :
          Invoke("send_raw_request", <<command>>, send_raw_request(device, command, h), h)
    /\ UNCHANGED device

GetBlinkCount ==
    /\ pc = "idle" /\ device # None
    /\ \E h \in HttpOutcomes :
          Invoke("get_blink_count", <<>>, get_blink_count(device, h), h)
    /\ UNCHANGED device

SetBlinkCount ==
    /\ pc = "idle" /\ device # None
    /\ \E value \in BlinkCountInputs, h \in HttpOutcomes :
          Invoke("set_blink_count", <<value>>, set_blink_count(device, value, h), h)
    /\ UNCHANGED device

GetBlinkTime ==
    /\ pc = "idle" /\ device # None
    /\ \E h \in HttpOutcomes :
          Invoke("get_blink_time", <<>>, get_blink_time(device, h), h)
    /\ UNCHANGED device

SetBlinkTime ==
    /\ pc = "idle" /\ device # None
    /\ \E value \in BlinkTimeInputs, h \in HttpOutcomes :
          Invoke("set_blink_time", <<value>>, set_blink_time(device, value, h), h)
    /\ UNCHANGED device

GetPower ==
    /\ pc = "idle" /\ device # None
    /\ \E output \in PowerOutputInputs, h \in HttpOutcomes :
          Invoke("get_power", <<output>>, get_power(device, output, h), h)
    /\ UNCHANGED device

SetPower ==
    /\ pc = "idle" /\ device # None
    /\ \E value \in PowerTypeInputs, output \in PowerOutputInputs, h \in HttpOutcomes :
          Invoke("set_power", <<value, output>>, set_power(device, value, output, h), h)
    /\ UNCHANGED device

GetFriendlyName ==
    /\ pc = "idle" /\ device # None
    /\ \E output \in FriendlyNameOutputInputs, h \in HttpOutcomes :
          Invoke("get_friendly_name", <<output>>, get_friendly_name(device, output, h), h)
    /\ UNCHANGED device

SetFriendlyName ==
    /\ pc = "idle" /\ device # None
    /\ \E value \in NameInputs, output \in FriendlyNameOutputInputs, h \in HttpOutcomes :
          Invoke("set_friendly_name", <<value, output>>,
                 set_friendly_name(device, value, output, h), h)
    /\ UNCHANGED device

GetStatus ==
    /\ pc = "idle" /\ device # None
    /\ \E statusType \in StatusTypeInputs, h \in HttpOutcomes :
          Invoke("get_status", <<statusType>>, get_status(device, statusType, h), h)
    /\ UNCHANGED device

\* the caller takes the result; the next call starts afresh
Finish ==
    /\ pc = "done"
    /\ pc' = "idle"
    /\ call' = [op |-> "none", args |-> <<>>]
    /\ sent' = <<>>
    /\ http' = NoHttp
    /\ result' = NoResult
    /\ UNCHANGED device

Next ==
    \/ Connect
    \/ SendRawRequest
    \/ GetBlinkCount
    \/ SetBlinkCount
    \/ GetBlinkTime
    \/ SetBlinkTime
    \/ GetPower
    \/ SetPower
    \/ GetFriendlyName
    \/ SetFriendlyName
    \/ GetStatus
    \/ Finish

Spec == Init /\ [][Next]_vars

(***************************************************************************)
(* Reading a finished call.                                                *)
(***************************************************************************)
Finished == pc = "done"
Raised(type) == result.kind = "raise" /\ result.type = type
\* the device answered with status 200 and a JSON object
Replied == http.kind = "response" /\ http.status = 200 /\ http.json
\* the exchange ended without a response
NoResponse == http.kind \in {"timeout", "neterror"}
\* the cmnd parameter of the i-th request of the call
Cmnd(i) == sent[i].params[1].v.v
\* the call sent the command cmd, and nothing else
Sends(cmd) == Len(sent) = 1 /\ Cmnd(1) = cmd

\* the call's arguments lie outside the documented domain of its operation
InvalidInput ==
    CASE call.op = "connect" -> (call.args[2] = None) # (call.args[3] = None)
      [] call.op = "set_blink_count" -> call.args[1] < 0 \/ call.args[1] > 32000
      [] call.op = "set_blink_time" -> call.args[1] < 2 \/ call.args[1] > 3600
      [] call.op = "get_power" -> call.args[1] \notin PowerOutputType
      [] call.op = "set_power" ->
            \/ call.args[1] \notin PowerType
            \/ call.args[2] \notin PowerOutputType
            \/ /\ call.args[1] \in {PowerTypeOf("BLINK"), PowerTypeOf("BLINK_OFF")}
               /\ call.args[2] = ALL_OUTPUTS
      [] call.op = "get_friendly_name" -> call.args[1] \notin FriendlyNameOutputType
      [] call.op = "set_friendly_name" ->
            \/ call.args[2] \notin FriendlyNameOutputType
            \/ Len(pystr(call.args[1])) > 32
      [] call.op = "get_status" -> call.args[1] \notin StatusType
      [] OTHER -> FALSE

(***************************************************************************)
(* C1: a call whose input is outside its documented domain fails with      *)
(* ValueError, and a call that fails with ValueError has sent no request.  *)
(***************************************************************************)
C1_InvalidInputBeforeSend ==
    Finished =>
        /\ InvalidInput => Raised("ValueError")
        /\ Raised("ValueError") => sent = <<>> /\ http = NoHttp

C1_Witness ==
    /\ Finished /\ call.op = "set_blink_time" /\ call.args[1] = 3601
    /\ Raised("ValueError") /\ sent = <<>>

(***************************************************************************)
(* C2: set_power(TOGGLE) on a specific output n returns true when the      *)
(* reply's POWER<n> is "ON", false when it is "OFF", and fails with         *)
(* CommandError for every other reply.                                     *)
(***************************************************************************)
C2_ToggleDecoding ==
    (/\ Finished /\ call.op = "set_power" /\ ~InvalidInput /\ Replied
     /\ call.args[1] = PowerTypeOf("TOGGLE") /\ call.args[2] # ALL_OUTPUTS)
    => LET got == get(http.obj, <<"POWER">> \o pystr(EnumValue(call.args[2]))) IN
       IF got = StrV(<<"ON">>) THEN result = Return(BoolV(TRUE))
       ELSE IF got = StrV(<<"OFF">>) THEN result = Return(BoolV(FALSE))
       ELSE Raised("CommandError")

(***************************************************************************)
(* C3: set_power(c) for c in OFF, ON, BLINK, BLINK_OFF succeeds exactly    *)
(* when the reply's POWER<n> is the string expected for c, returning false *)
(* for OFF and true otherwise; every other reply fails with CommandError;  *)
(* set_power never returns None.                                           *)
(***************************************************************************)
ExpectedPower(c) ==
    CASE c = PowerTypeOf("OFF") -> StrV(<<"OFF">>)
      [] c = PowerTypeOf("ON") -> StrV(<<"ON">>)
      [] c = PowerTypeOf("BLINK") -> StrV(<<"Blink ON">>)
      [] c = PowerTypeOf("BLINK_OFF") -> StrV(<<"Blink OFF">>)

C3_SetPowerDecoding ==
    (Finished /\ call.op = "set_power") =>
        /\ result # Return(None)
        /\ (~InvalidInput /\ Replied /\ call.args[1] # PowerTypeOf("TOGGLE")) =>
              LET got == get(http.obj, <<"POWER">> \o pystr(EnumValue(call.args[2]))) IN
              IF got = ExpectedPower(call.args[1])
              THEN result = Return(BoolV(call.args[1] # PowerTypeOf("OFF")))
              ELSE Raised("CommandError")

C3_Witness ==
    /\ Finished /\ call.op = "set_power" /\ Replied
    /\ call.args[1] = PowerTypeOf("BLINK_OFF")
    /\ call.args[2] = Member("PowerOutputType", 1)
    /\ get(http.obj, <<"POWER", "1">>) = StrV(<<"Blink OFF">>)
    /\ result = Return(BoolV(TRUE))

(***************************************************************************)
(* C4: when connect's probe fails and the body of the device's response    *)
(* contains the authentication marker, connect fails with                  *)
(* AuthenticationError: "required" without a password, "invalid" with one. *)
(***************************************************************************)
C4_AuthMarkerInBody ==
    (/\ Finished /\ call.op = "connect" /\ ~InvalidInput
     /\ result.kind = "raise"
     /\ http.kind = "response" /\ Contains(http.text, AuthMarker))
    => result = (IF call.args[3] = None THEN AuthRequired ELSE AuthInvalid)

C6_StatusDecoding ==
    (Finished /\ call.op = "get_status" /\ ~InvalidInput) =>
        /\ Sends(<<"Status", " ", ToString(call.args[1].idx - 1)>>)
        /\ Replied =>
              IF http.obj # <<>> /\ Contains(http.obj[1].k, <<"Status">>)
              THEN result = Return(DictV(http.obj))
              ELSE Raised("CommandError")

(***************************************************************************)
(* C7: a call sends exactly one request when its input is valid and none   *)
(* otherwise, connect's probe included; when the exchange fails (no         *)
(* response, a status other than 200, a body that is no JSON) the call     *)
(* raises, having sent that one request and no second one.                 *)
(***************************************************************************)
C7_OneSendPerCall ==
    Finished =>
        /\ Len(sent) = (IF InvalidInput THEN 0 ELSE 1)
        /\ (~InvalidInput /\ ~Replied) => result.kind = "raise"
        /\ result.kind \in {"return", "raise"}

C7_Witness ==
    /\ Finished /\ call.op = "set_friendly_name" /\ ~InvalidInput
    /\ http.kind = "response" /\ http.status = 500
    /\ Len(sent) = 1 /\ Raised("CommandError")

(***************************************************************************)
(* C8: get_power(ALL_OUTPUTS) sends POWER0 and returns any JSON object the *)
(* device answers with, unmodified; get_power(n) returns the reply's       *)
(* POWER<n> when that is "ON" or "OFF" and fails with CommandError for     *)
(* every other reply.                                                      *)
(***************************************************************************)
C8_GetPowerDecoding ==
    (Finished /\ call.op = "get_power" /\ ~InvalidInput) =>
        /\ Sends(<<"POWER", ToString(call.args[1].idx)>>)
        /\ Replied =>
              IF call.args[1] = ALL_OUTPUTS
              THEN result = Return(DictV(http.obj))
              ELSE LET got == get(http.obj, <<"POWER", ToString(call.args[1].idx)>>) IN
                   IF got \in {StrV(<<"ON">>), StrV(<<"OFF">>)}
                   THEN result = Return(got)
                   ELSE Raised("CommandError")

C8_Witness ==
    /\ Finished /\ call.op = "get_power" /\ call.args[1] = ALL_OUTPUTS
    /\ Cmnd(1) = <<"POWER", "0">>
    /\ Replied /\ http.obj = <<Pair(<<"POWER", "1">>, StrV(<<"UNKNOWN">>))>>
    /\ result = Return(DictV(http.obj))

(***************************************************************************)
(* C9: for 0 <= v <= 32000, set_blink_count(v) sends "BlinkCount v",       *)
(* returns v when the reply's BlinkCount equals v and fails with           *)
(* CommandError when it is missing or differs; for every other v it fails  *)
(* with ValueError.                                                        *)
(***************************************************************************)
C9_SetBlinkCount ==
    (Finished /\ call.op = "set_blink_count") =>
        LET v == call.args[1] IN
        IF 0 <= v /\ v <= 32000
        THEN /\ Sends(<<"BlinkCount", " ", ToString(v)>>)
             /\ Replied =>
                   IF get(http.obj, <<"BlinkCount">>) = IntV(v)
                   THEN result = Return(IntV(v))
                   ELSE Raised("CommandError")
        ELSE Raised("ValueError")

C9_Witness ==
    /\ Finished /\ call.op = "set_blink_count" /\ call.args[1] = 32000
    /\ Cmnd(1) = <<"BlinkCount", " ", "32000">>
    /\ Replied /\ result = Return(IntV(32000))

(***************************************************************************)
(* C10: connect returns a connection only when get_status accepted the     *)
(* probe's reply; it fails with ValueError for a half-set credential pair, *)
(* with AuthenticationError when the probe's failure contains the          *)
(* authentication marker, and with ConnectionError for every other probe   *)
(* failure; it never raises CommandError, and no other operation raises    *)
(* AuthenticationError.                                                    *)
(***************************************************************************)
\* how the status probe of the finished connect call ended
ProbeOutcome ==
    get_status([timeout |-> call.args[4], url |-> NormalizeUrl(call.args[1]),
                login_info |-> <<>>], ABBREVIATED, http).out

C10_ConnectOutcomes ==
    Finished =>
        IF call.op # "connect" THEN ~Raised("AuthenticationError")
        ELSE IF InvalidInput THEN Raised("ValueError")
        ELSE IF ProbeOutcome.kind = "return"
        THEN result = Return(device) /\ device # None
        ELSE IF Contains(ProbeOutcome.msg, AuthMarker)
        THEN result = (IF call.args[3] = None THEN AuthRequired ELSE AuthInvalid)
        ELSE Raised("ConnectionError")

C10_Witness ==
    /\ Finished /\ call.op = "connect" /\ call.args[3] # None
    /\ Replied /\ http.obj = <<Pair(<<"WARNING">>, StrV(AuthMarker))>>
    /\ result = AuthInvalid

=============================================================================
